---- MODULE Spec2Model ----
(***************************************************************************)
(* Provider resolution, Ollama request shaping and local-server            *)
(* availability probing of qwen-code's OpenAI-compatible content           *)
(* generator.                                                              *)
(*                                                                         *)
(* JavaScript strings are TLA+ strings; TLC evaluates Len, \o and SubSeq   *)
(* on them, so includes/startsWith/endsWith/toLowerCase/replace are        *)
(* computed character by character.  An optional value (a field that may   *)
(* be undefined) is the empty tuple << >> when undefined and the           *)
(* one-element tuple <<v>> when present.                                   *)
(***************************************************************************)
EXTENDS Integers, Sequences, FiniteSets, TLC

VARIABLES
    contentGeneratorConfig, \* argument of determineProvider (optional config)
    cliConfig,              \* what cliConfig.getContentGeneratorConfig() returns
    provider,               \* provider returned by determineProvider (optional)
    prevVariant,            \* variant returned by the previous resolution of the same config
    calls,                  \* number of determineProvider calls on the current config
    request,                \* last request handed to buildRequest (optional)
    built,                  \* completion of the last buildRequest call (optional)
    ckPc,                   \* position inside checkLocalServerAvailability
    ckBaseUrl,              \* its baseUrl argument
    ckTimeout,              \* its timeout argument
    ckCaller,               \* who awaits it: "user" or "autoDetect"
    ckRequests,             \* the fetches it has issued so far, in order
    ckResult,               \* its completion (optional)
    adPc,                   \* position inside autoDetectLocalServer
    adIdx,                  \* index of the endpoint the for-loop is at
    adProbed,               \* results the loop has received so far, in order
    adResult,               \* completion of autoDetectLocalServer (optional)
    adStarted,              \* endpoints whose probe the loop has started, in order
    adTimeouts,             \* fetches of this autoDetect call that ran into their timeout
    offlineMode,            \* the OFFLINE_MODE / offlineMode setting
    startup                 \* completion of the consuming boundary's startup (optional)

probeVars == <<ckPc, ckBaseUrl, ckTimeout, ckCaller, ckRequests, ckResult,
               adPc, adIdx, adProbed, adResult, adStarted, adTimeouts,
               offlineMode, startup>>

resolveVars == <<contentGeneratorConfig, cliConfig, provider, prevVariant, calls,
                 request, built>>

-----------------------------------------------------------------------------
(* String primitives of the JavaScript runtime.                            *)

UpperChars == "ABCDEFGHIJKLMNOPQRSTUVWXYZ"
LowerChars == "abcdefghijklmnopqrstuvwxyz"

\* String.prototype.includes
Includes(s, sub) ==
    \E i \in 0..(Len(s) - Len(sub)) : SubSeq(s, i + 1, i + Len(sub)) = sub

\* String.prototype.startsWith
StartsWith(s, pre) ==
    Len(pre) <= Len(s) /\ SubSeq(s, 1, Len(pre)) = pre

\* String.prototype.endsWith
EndsWith(s, suf) ==
    Len(suf) <= Len(s) /\ SubSeq(s, Len(s) - Len(suf) + 1, Len(s)) = suf

\* toLowerCase of one character
LowerChar(c) ==
    IF \E i \in 1..Len(UpperChars) : SubSeq(UpperChars, i, i) = c
    THEN LET i == CHOOSE j \in 1..Len(UpperChars) : SubSeq(UpperChars, j, j) = c
         IN  SubSeq(LowerChars, i, i)
    ELSE c

\* String.prototype.toLowerCase
RECURSIVE ToLowerCase(_)
ToLowerCase(s) ==
    IF Len(s) = 0 THEN ""
    ELSE LowerChar(SubSeq(s, 1, 1)) \o ToLowerCase(SubSeq(s, 2, Len(s)))

\* `opt?.toLowerCase() || ''` and `opt || ''` on an optional string
OrEmpty(opt) == IF opt = << >> THEN "" ELSE opt[1]

-----------------------------------------------------------------------------
(* Program constants.                                                      *)

DEFAULT_OLLAMA_BASE_URL == "http://localhost:11434/v1"
DEFAULT_OLLAMA_MODEL == "qwen3-coder:14b"
DEFAULT_VLLM_BASE_URL == "http://localhost:8000/v1"

Variants == {"Ollama", "Vllm", "DashScope", "DeepSeek", "OpenRouter",
             "ModelScope", "Default"}

-----------------------------------------------------------------------------
(* Detection predicates.                                                   *)

\* isOllamaProvider with the 127.0.0.1 form of the address forgotten.
isOllamaProvider_LocalhostOnly(config) ==
    LET baseUrl == ToLowerCase(OrEmpty(config.baseUrl))
        model   == OrEmpty(config.model)
    IN  Includes(baseUrl, "localhost:11434")
        \/ (Includes(model, ":") /\ StartsWith(model, "qwen"))

\* OllamaProvider.isOllamaProvider
isOllamaProvider(config) ==
    LET baseUrl == ToLowerCase(OrEmpty(config.baseUrl))
        model   == OrEmpty(config.model)
    IN  IF Includes(baseUrl, "localhost:11434") \/ Includes(baseUrl, "127.0.0.1:11434")
        THEN TRUE
        ELSE IF Includes(model, ":") /\ StartsWith(model, "qwen")
             THEN TRUE
             ELSE FALSE

\* isVllmProvider with the 127.0.0.1 form of the address forgotten.
isVllmProvider_LocalhostOnly(config) ==
    Includes(ToLowerCase(OrEmpty(config.baseUrl)), "localhost:8000")

\* VllmProvider.isVllmProvider
isVllmProvider(config) ==
    LET baseUrl == ToLowerCase(OrEmpty(config.baseUrl))
    IN  IF Includes(baseUrl, "localhost:8000") \/ Includes(baseUrl, "127.0.0.1:8000")
        THEN TRUE
        ELSE FALSE

\* The four cloud predicates live in provider files outside this slice; they
\* are pure functions of the connection config that are false on a config
\* naming no cloud endpoint.
isDashScopeProvider(config) ==
    OrEmpty(config.baseUrl) = "https://dashscope.aliyuncs.com/compatible-mode/v1"

isDeepSeekProvider(config) ==
    Includes(ToLowerCase(OrEmpty(config.baseUrl)), "api.deepseek.com")

isOpenRouterProvider(config) ==
    Includes(OrEmpty(config.baseUrl), "openrouter.ai")

isModelScopeProvider(config) ==
    Includes(OrEmpty(config.baseUrl), "modelscope")

-----------------------------------------------------------------------------
(* Provider resolution.                                                    *)

\* A provider instance: its variant and the contentGeneratorConfig argument
\* its constructor stored.
NewProvider(variant, cgConfig) ==
    [variant |-> variant, contentGeneratorConfig |-> cgConfig]

\* determineProvider with the final fallback dropped: the last cloud provider
\* is returned unconditionally.
determineProvider_NoDefault(cgConfig, cli) ==
    LET config == IF cgConfig # << >> THEN cgConfig[1] ELSE cli
    IN  IF isOllamaProvider(config) THEN NewProvider("Ollama", cgConfig)
        ELSE IF isVllmProvider(config) THEN NewProvider("Vllm", cgConfig)
        ELSE IF isDashScopeProvider(config) THEN NewProvider("DashScope", cgConfig)
        ELSE IF isDeepSeekProvider(config) THEN NewProvider("DeepSeek", cgConfig)
        ELSE IF isOpenRouterProvider(config) THEN NewProvider("OpenRouter", cgConfig)
        ELSE NewProvider("ModelScope", cgConfig)

\* determineProvider with the two local checks in the opposite order.
determineProvider_VllmFirst(cgConfig, cli) ==
    LET config == IF cgConfig # << >> THEN cgConfig[1] ELSE cli
    IN  IF isVllmProvider(config) THEN NewProvider("Vllm", cgConfig)
        ELSE IF isOllamaProvider(config) THEN NewProvider("Ollama", cgConfig)
        ELSE IF isDashScopeProvider(config) THEN NewProvider("DashScope", cgConfig)
        ELSE IF isDeepSeekProvider(config) THEN NewProvider("DeepSeek", cgConfig)
        ELSE IF isOpenRouterProvider(config) THEN NewProvider("OpenRouter", cgConfig)
        ELSE IF isModelScopeProvider(config) THEN NewProvider("ModelScope", cgConfig)
        ELSE NewProvider("Default", cgConfig)

\* determineProvider(contentGeneratorConfig, cliConfig)
determineProvider(cgConfig, cli) ==
    LET config == IF cgConfig # << >> THEN cgConfig[1] ELSE cli
    IN  IF isOllamaProvider(config) THEN NewProvider("Ollama", cgConfig)
        ELSE IF isVllmProvider(config) THEN NewProvider("Vllm", cgConfig)
        ELSE IF isDashScopeProvider(config) THEN NewProvider("DashScope", cgConfig)
        ELSE IF isDeepSeekProvider(config) THEN NewProvider("DeepSeek", cgConfig)
        ELSE IF isOpenRouterProvider(config) THEN NewProvider("OpenRouter", cgConfig)
        ELSE IF isModelScopeProvider(config) THEN NewProvider("ModelScope", cgConfig)
        ELSE NewProvider("Default", cgConfig)

-----------------------------------------------------------------------------
(* Ollama and vLLM request shaping.                                        *)

\* The own properties of the modelMap object literal in mapModelName.
modelMap ==
    [a \in {"coder-model", "qwen3-coder", "qwen3-coder-7b", "qwen3-coder-14b",
            "qwen3-coder-32b", "qwen3-coder-plus"} |->
        CASE a = "coder-model"     -> DEFAULT_OLLAMA_MODEL
          [] a = "qwen3-coder"     -> "qwen3-coder:14b"
          [] a = "qwen3-coder-7b"  -> "qwen3-coder:7b"
          [] a = "qwen3-coder-14b" -> "qwen3-coder:14b"
          [] a = "qwen3-coder-32b" -> "qwen3-coder:32b"
          [] a = "qwen3-coder-plus" -> "qwen3-coder:32b"]

\* What a property read on Object.prototype yields for the keys that can
\* survive toLowerCase: the Object constructor and the prototype object.
\* Neither is a string; they are written here as the tags a debugger prints.
ObjectPrototypeMembers ==
    [k \in {"constructor", "__proto__"} |->
        IF k = "constructor" THEN "[Function: Object]" ELSE "[Object: null prototype] {}"]

\* modelMap[key]: own property, else the prototype chain, else undefined.
modelMapGet(key) ==
    IF key \in DOMAIN modelMap THEN <<modelMap[key]>>
    ELSE IF key \in DOMAIN ObjectPrototypeMembers THEN <<ObjectPrototypeMembers[key]>>
    ELSE << >>

\* mapModelName without the early return for a model that has a colon.
mapModelName_NoColonPassThrough(model) ==
    LET hit == modelMapGet(ToLowerCase(model))
    IN  IF hit # << >> THEN hit[1] ELSE DEFAULT_OLLAMA_MODEL

\* OllamaProvider.mapModelName
mapModelName(model) ==
    IF Includes(model, ":") THEN model
    ELSE LET hit == modelMapGet(ToLowerCase(model))
         IN  IF hit # << >> THEN hit[1] ELSE DEFAULT_OLLAMA_MODEL

\* Completion records of a call.
Return(v) == [type |-> "return", value |-> v]

\* OllamaProvider.buildRequest: spread of the request, then model and
\* keep_alive written over it.
OllamaBuildRequest(req) ==
    Return([f \in (DOMAIN req) \cup {"model", "keep_alive"} |->
               IF f = "model" THEN mapModelName(req.model)
               ELSE IF f = "keep_alive" THEN "5m"
               ELSE req[f]])

\* VllmProvider.buildRequest: a copy of the request.
VllmBuildRequest(req) ==
    Return([f \in DOMAIN req |-> req[f]])

buildRequest(p, req) ==
    IF p.variant = "Ollama" THEN OllamaBuildRequest(req) ELSE VllmBuildRequest(req)

-----------------------------------------------------------------------------
(* Inputs of the resolution specification.                                 *)

MaxCalls == 2

Opt(S) == {<< >>} \cup {<<v>> : v \in S}

UrlSchemes == {"http://"}
UrlHosts == {"localhost", "127.0.0.1", "LOCALHOST", "example.com",
             "api.deepseek.com", "openrouter.ai", "api-inference.modelscope.cn"}
UrlPorts == {"", ":11434", ":8000", ":1143"}
UrlPaths == {"/v1", "/localhost:11434", "/openrouter.ai/modelscope"}

BaseUrls ==
    {s \o h \o p \o t : s \in UrlSchemes, h \in UrlHosts, p \in UrlPorts, t \in UrlPaths}
    \cup {"", "https://dashscope.aliyuncs.com/compatible-mode/v1"}

ConfigModels == {"", "qwen3-coder", "qwen3-coder:14b", "qwen:", "Qwen3:8b",
                 "custom:latest", "my-qwen:1", "gpt-4"}

Configs ==
    [baseUrl : Opt(BaseUrls), apiKey : Opt({"sk-key"}), model : Opt(ConfigModels),
     timeout : Opt({5000}), maxRetries : Opt({3})]

EmptyConfig ==
    [baseUrl |-> << >>, apiKey |-> << >>, model |-> << >>, timeout |-> << >>,
     maxRetries |-> << >>]

CliConfigs ==
    {EmptyConfig,
     [EmptyConfig EXCEPT !.baseUrl = <<DEFAULT_OLLAMA_BASE_URL>>],
     [EmptyConfig EXCEPT !.baseUrl = <<DEFAULT_VLLM_BASE_URL>>, !.model = <<"gpt-4">>]}

RequestModels == {"qwen3-coder", "coder-model", "qwen3-coder-7b", "qwen3-coder-14b",
                  "qwen3-coder-32b", "qwen3-coder-plus", "Qwen3-Coder-7B",
                  "custom:latest", "qwen3-coder:7b", "gpt-4", "llama3",
                  "constructor", "__proto__", ""}

Requests ==
    [model : RequestModels, messages : {"[user: hi]"}]
    \cup [model : RequestModels, messages : {"[]"}, temperature : {"0.2"}]

-----------------------------------------------------------------------------
(* Resolution specification: a caller resolves a provider for a config,    *)
(* possibly more than once, and shapes requests with it.                   *)

\* No probe is running and the boundary has not started.
ProbeIdle ==
    /\ ckPc = "idle"
    /\ ckBaseUrl = ""
    /\ ckTimeout = 0
    /\ ckCaller = "user"
    /\ ckRequests = << >>
    /\ ckResult = << >>
    /\ adPc = "idle"
    /\ adIdx = 0
    /\ adProbed = << >>
    /\ adResult = << >>
    /\ adStarted = << >>
    /\ adTimeouts = 0
    /\ offlineMode = FALSE
    /\ startup = << >>

InitResolve ==
    /\ ProbeIdle
    /\ \/ /\ contentGeneratorConfig \in {<<c>> : c \in Configs}
          /\ cliConfig = EmptyConfig
       \/ /\ contentGeneratorConfig = << >>
          /\ cliConfig \in CliConfigs
    /\ provider = << >>
    /\ prevVariant = << >>
    /\ calls = 0
    /\ request = << >>
    /\ built = << >>

\* createOpenAIContentGenerator's call of determineProvider
DetermineProvider ==
    /\ calls < MaxCalls
    /\ request = << >>
    /\ provider' = <<determineProvider(contentGeneratorConfig, cliConfig)>>
    /\ prevVariant' = IF provider = << >> THEN << >> ELSE <<provider[1].variant>>
    /\ calls' = calls + 1
    /\ UNCHANGED <<contentGeneratorConfig, cliConfig, request, built>>
    /\ UNCHANGED probeVars

\* The pipeline's call of provider.buildRequest on a local provider
BuildRequest ==
    /\ provider # << >>
    /\ provider[1].variant \in {"Ollama", "Vllm"}
    /\ request = << >>
    /\ \E req \in Requests :
          /\ request' = <<req>>
          /\ built' = <<buildRequest(provider[1], req)>>
    /\ UNCHANGED <<contentGeneratorConfig, cliConfig, provider, prevVariant, calls>>
    /\ UNCHANGED probeVars

NextResolve == DetermineProvider \/ BuildRequest

vars == <<resolveVars, probeVars>>

SpecResolve == InitResolve /\ [][NextResolve]_vars

-----------------------------------------------------------------------------
(* Properties of resolution and request shaping.                           *)

\* The config determineProvider inspected in the current state.
InspectedConfig ==
    IF contentGeneratorConfig # << >> THEN contentGeneratorConfig[1] ELSE cliConfig

Resolved == provider # << >>

HasOllamaAddress(c) ==
    \/ Includes(OrEmpty(c.baseUrl), "localhost:11434")
    \/ Includes(OrEmpty(c.baseUrl), "127.0.0.1:11434")

HasVllmAddress(c) ==
    \/ Includes(OrEmpty(c.baseUrl), "localhost:8000")
    \/ Includes(OrEmpty(c.baseUrl), "127.0.0.1:8000")

\* C1: every config whose baseUrl contains localhost:11434 or 127.0.0.1:11434
\* resolves to the Ollama variant, whatever its other fields are.
C1_OllamaAddressResolvesToOllama ==
    (Resolved /\ HasOllamaAddress(InspectedConfig))
        => provider[1].variant = "Ollama"

C1_Witness ==
    /\ Resolved
    /\ InspectedConfig.baseUrl = <<"http://127.0.0.1:11434/v1">>
    /\ InspectedConfig.model = <<"gpt-4">>
    /\ InspectedConfig.apiKey # << >>
    /\ InspectedConfig.timeout # << >>
    /\ provider[1].variant = "Ollama"

\* C2: every config whose baseUrl contains localhost:8000 or 127.0.0.1:8000
\* and on which the Ollama predicate is false resolves to the vLLM variant.
C2_VllmAddressResolvesToVllm ==
    (Resolved /\ HasVllmAddress(InspectedConfig)
              /\ ~HasOllamaAddress(InspectedConfig)
              /\ ~Includes(ToLowerCase(OrEmpty(InspectedConfig.baseUrl)), "localhost:11434")
              /\ ~(StartsWith(OrEmpty(InspectedConfig.model), "qwen")
                   /\ Includes(OrEmpty(InspectedConfig.model), ":")))
        => provider[1].variant = "Vllm"

C2_Witness ==
    /\ Resolved
    /\ InspectedConfig.baseUrl = <<"http://127.0.0.1:8000/v1">>
    /\ InspectedConfig.model = <<"Qwen3:8b">>
    /\ provider[1].variant = "Vllm"

Built == Resolved /\ built # << >>

\* C4: Ollama buildRequest keeps every field other than model, sets
\* keep_alive to '5m', replaces an alias of the alias map by its tag
\* ('qwen3-coder' by 'qwen3-coder:14b') and passes a model that contains a
\* colon through; so the config {baseUrl: 'http://localhost:11434/v1',
\* model: 'qwen3-coder'} applied to {model: 'qwen3-coder', messages} yields
\* {model: 'qwen3-coder:14b', keep_alive: '5m', messages}.
C4_OllamaBuildRequestShape ==
    (Built /\ provider[1].variant = "Ollama") =>
        LET req == request[1]
            out == built[1].value
        IN  /\ built[1].type = "return"
            /\ DOMAIN out = (DOMAIN req) \cup {"keep_alive"}
            /\ \A f \in (DOMAIN req) \ {"model"} : out[f] = req[f]
            /\ out.keep_alive = "5m"
            /\ (req.model \in DOMAIN modelMap => out.model = modelMap[req.model])
            /\ (req.model = "qwen3-coder" => out.model = "qwen3-coder:14b")
            /\ (Includes(req.model, ":") => out.model = req.model)
            /\ (/\ InspectedConfig.baseUrl = <<"http://localhost:11434/v1">>
                /\ InspectedConfig.model = <<"qwen3-coder">>
                /\ req = [model |-> "qwen3-coder", messages |-> "[user: hi]"])
               => out = [model |-> "qwen3-coder:14b", keep_alive |-> "5m",
                         messages |-> "[user: hi]"]

C4_Witness ==
    /\ Built
    /\ provider[1].variant = "Ollama"
    /\ InspectedConfig.baseUrl = <<"http://localhost:11434/v1">>
    /\ InspectedConfig.model = <<"qwen3-coder">>
    /\ request[1] = [model |-> "qwen3-coder", messages |-> "[user: hi]"]
    /\ built[1].value.model = "qwen3-coder:14b"

C4_WitnessColon ==
    /\ Built
    /\ provider[1].variant = "Ollama"
    /\ request[1].model = "custom:latest"
    /\ built[1].value.model = "custom:latest"

\* C5: for every non-empty model string that has no colon and is not a known
\* alias (compared as the code compares, in lower case), Ollama buildRequest
\* returns without throwing and the model is the default 'qwen3-coder:14b'.
C5_UnknownAliasGetsDefault ==
    (/\ Built
     /\ provider[1].variant = "Ollama"
     /\ request[1].model # ""
     /\ ~Includes(request[1].model, ":")
     /\ ToLowerCase(request[1].model) \notin DOMAIN modelMap)
        => /\ built[1].type = "return"
           /\ built[1].value.model = "qwen3-coder:14b"

\* The priority order of index.ts and the predicate of each variant.
PriorityOrder == <<"Ollama", "Vllm", "DashScope", "DeepSeek", "OpenRouter",
                   "ModelScope", "Default">>

PredicateHolds(v, c) ==
    CASE v = "Ollama"     -> isOllamaProvider(c)
      [] v = "Vllm"       -> isVllmProvider(c)
      [] v = "DashScope"  -> isDashScopeProvider(c)
      [] v = "DeepSeek"   -> isDeepSeekProvider(c)
      [] v = "OpenRouter" -> isOpenRouterProvider(c)
      [] v = "ModelScope" -> isModelScopeProvider(c)
      [] v = "Default"    -> TRUE

\* C9: the variant returned is the first of Ollama, vLLM, DashScope, DeepSeek,
\* OpenRouter, ModelScope, Default whose predicate holds; a model that starts
\* with 'qwen' and contains a colon resolves to Ollama whatever the baseUrl.
C9_FirstMatchInPriorityOrder ==
    Resolved =>
        /\ \E i \in 1..Len(PriorityOrder) :
              /\ provider[1].variant = PriorityOrder[i]
              /\ PredicateHolds(PriorityOrder[i], InspectedConfig)
              /\ \A j \in 1..(i - 1) : ~PredicateHolds(PriorityOrder[j], InspectedConfig)
        /\ (/\ StartsWith(OrEmpty(InspectedConfig.model), "qwen")
            /\ Includes(OrEmpty(InspectedConfig.model), ":"))
           => provider[1].variant = "Ollama"

C9_Witness ==
    /\ Resolved
    /\ InspectedConfig.model = <<"qwen3-coder:14b">>
    /\ InspectedConfig.baseUrl = <<"http://localhost:8000/v1">>
    /\ provider[1].variant = "Ollama"

C9_WitnessCloudOverlap ==
    /\ Resolved
    /\ InspectedConfig.model = <<"qwen:">>
    /\ isDeepSeekProvider(InspectedConfig)
    /\ isOpenRouterProvider(InspectedConfig)
    /\ provider[1].variant = "Ollama"

-----------------------------------------------------------------------------
(* Availability probing.                                                   *)

\* baseUrl.replace(/\/v1\/?$/, '/api/tags'): the pattern is anchored at the
\* end, so it matches a final "/v1/" or a final "/v1" and nothing else.
ReplaceTrailingV1(baseUrl) ==
    IF EndsWith(baseUrl, "/v1/")
    THEN SubSeq(baseUrl, 1, Len(baseUrl) - 4) \o "/api/tags"
    ELSE IF EndsWith(baseUrl, "/v1")
         THEN SubSeq(baseUrl, 1, Len(baseUrl) - 3) \o "/api/tags"
         ELSE baseUrl

\* modelsUrl of checkLocalServerAvailability
ModelsUrl(baseUrl) ==
    IF EndsWith(baseUrl, "/v1") THEN baseUrl \o "/models" ELSE baseUrl \o "/v1/models"

\* Completion records: besides Return, a thrown Error and falling off the
\* end of a block.
Throw(message) == [type |-> "throw", value |-> message]
Normal == [type |-> "normal", value |-> ""]

\* ServerAvailability values; an omitted optional field is << >>.
Available(serverType, baseUrl, models) ==
    [isAvailable |-> TRUE, serverType |-> <<serverType>>, baseUrl |-> <<baseUrl>>,
     models |-> <<models>>, error |-> << >>]

Unavailable(error) ==
    [isAvailable |-> FALSE, serverType |-> << >>, baseUrl |-> << >>,
     models |-> << >>, error |-> <<error>>]

\* What one fetch can do.  The promise rejects (connection refused, or the
\* AbortSignal.timeout fires), or it resolves to a response with an ok flag
\* and a body.  Reading the body either gives a payload with optional
\* `models` and `data` arrays, or throws inside the try block: json() rejects
\* on text that is not JSON, and the property reads throw a TypeError on a
\* payload such as null.
MaxModels == 1

ModelNames == {"qwen3-coder:14b", "llama3"}

ModelLists == UNION {[1..n -> ModelNames] : n \in 0..MaxModels}

FetchFailed == "fetch failed"
TimeoutMessage == "The operation was aborted due to timeout"
JsonSyntaxMessage == "Unexpected token '<', \"<html>\" is not valid JSON"
NullPayloadMessage == "Cannot read properties of null"

NoBody == [valid |-> FALSE, error |-> "", models |-> << >>, data |-> << >>]

Bodies ==
    [valid : {TRUE}, error : {""}, models : Opt(ModelLists), data : Opt(ModelLists)]
    \cup [valid : {FALSE}, error : {JsonSyntaxMessage, NullPayloadMessage},
          models : {<< >>}, data : {<< >>}]

FetchOutcomes ==
    [kind : {"reject"}, timedOut : {FALSE}, error : {FetchFailed}, ok : {FALSE}, body : {NoBody}]
    \cup [kind : {"reject"}, timedOut : {TRUE}, error : {TimeoutMessage}, ok : {FALSE},
          body : {NoBody}]
    \cup [kind : {"response"}, timedOut : {FALSE}, error : {""}, ok : {FALSE}, body : {NoBody}]
    \cup [kind : {"response"}, timedOut : {FALSE}, error : {""}, ok : {TRUE}, body : Bodies]

EmptyList == << >>

\* `x || y` on an optional array: an array, even an empty one, is truthy.
OrElse(opt, other) == IF opt # << >> THEN opt ELSE other

\* The first try block reporting the URL it fetched instead of its argument.
TryTags_ReportsTagsUrl(baseUrl, o) ==
    IF o.kind = "reject" THEN Throw(o.error)
    ELSE IF o.ok
         THEN IF ~o.body.valid THEN Throw(o.body.error)
              ELSE Return(Available("ollama", ReplaceTrailingV1(baseUrl),
                                    OrElse(o.body.models, <<EmptyList>>)[1]))
         ELSE Normal

\* The first try block of checkLocalServerAvailability, up to its closing brace.
TryTags(baseUrl, o) ==
    IF o.kind = "reject" THEN Throw(o.error)
    ELSE IF o.ok
         THEN IF ~o.body.valid THEN Throw(o.body.error)
              ELSE Return(Available("ollama", baseUrl, OrElse(o.body.models, <<EmptyList>>)[1]))
         ELSE Normal

\* The first try block without its catch clause.
CatchTags_Rethrow(c) == c

\* catch (_error) { /* Not Ollama, try vLLM format */ }
CatchTags(c) == IF c.type = "throw" THEN Normal ELSE c

\* The second try block.
TryModels(baseUrl, o) ==
    IF o.kind = "reject" THEN Throw(o.error)
    ELSE IF o.ok
         THEN IF ~o.body.valid THEN Throw(o.body.error)
              ELSE LET models == OrElse(o.body.data, OrElse(o.body.models, <<EmptyList>>))[1]
                   IN  Return(Available(IF Includes(baseUrl, ":8000") THEN "vllm" ELSE "custom",
                                        baseUrl, models))
         ELSE Normal

\* The second try block without its catch clause.
CatchModels_Rethrow(c) == c

\* catch (error) { return { isAvailable: false, error: error.message } }
CatchModels(c) == IF c.type = "throw" THEN Return(Unavailable(c.value)) ELSE c

\* The statement after the second try block.
NotFound == Return(Unavailable("No local model server found at the specified URL"))

AfterModels(c) == IF c.type = "normal" THEN NotFound ELSE c

\* One issued fetch: the URL, the timeout of its AbortSignal and what came back.
Fetched(endpoint, url, timeout, o) ==
    [endpoint |-> endpoint, url |-> url, timeout |-> timeout, outcome |-> o]

\* commonEndpoints with the last vLLM form left out.
commonEndpoints_Three ==
    <<"http://localhost:11434/v1", "http://127.0.0.1:11434/v1",
      "http://localhost:8000/v1">>

commonEndpoints ==
    <<"http://localhost:11434/v1", "http://127.0.0.1:11434/v1",
      "http://localhost:8000/v1", "http://127.0.0.1:8000/v1">>

AutoDetectTimeout == 2000
DefaultCheckTimeout == 5000

NoneDetected ==
    Return(Unavailable("No local model server detected on common ports (11434, 8000)"))

\* getLocalServerSetupInstructions(serverType = 'ollama'), after trim()
getLocalServerSetupInstructions(serverType) ==
    IF serverType = "ollama"
    THEN "Ollama is not running. To use local models:\n\n"
         \o "1. Install Ollama:\n"
         \o "   Linux/macOS: curl -fsSL https://ollama.com/install.sh | sh\n"
         \o "   Windows: Download from https://ollama.com/download\n\n"
         \o "2. Pull a Qwen3-Coder model:\n"
         \o "   ollama pull qwen3-coder:14b\n\n"
         \o "3. Ollama should start automatically. If not, run:\n"
         \o "   ollama serve\n\n"
         \o "4. Try your request again.\n\n"
         \o "For more help, visit: https://github.com/ollama/ollama"
    ELSE "vLLM server is not running. To use vLLM:\n\n"
         \o "1. Install vLLM:\n"
         \o "   pip install vllm\n\n"
         \o "2. Start vLLM server with Qwen3-Coder:\n"
         \o "   vllm serve Qwen/Qwen3-Coder-14B --port 8000\n\n"
         \o "3. Try your request again.\n\n"
         \o "For more help, visit: https://docs.vllm.ai"

-----------------------------------------------------------------------------
(* Probe specification: callers probe single URLs; the consuming boundary  *)
(* runs auto-detection at startup and then picks a provider or fails.      *)

CheckBaseUrls == {"http://localhost:11434/v1", "http://localhost:8000/v1",
                  "http://localhost:8000/v1/", "http://localhost:8000",
                  "http://192.168.1.5:8080/v1", "http://gpu-box:8080"}

CheckTimeouts == {DefaultCheckTimeout, AutoDetectTimeout}

CloudConfig ==
    [EmptyConfig EXCEPT !.baseUrl = <<"http://api.deepseek.com/v1">>,
                        !.apiKey = <<"sk-key">>, !.model = <<"gpt-4">>]

StartupConfigs == {EmptyConfig, CloudConfig}

InitProbe ==
    /\ ckPc = "idle"
    /\ ckBaseUrl = ""
    /\ ckTimeout = 0
    /\ ckCaller = "user"
    /\ ckRequests = << >>
    /\ ckResult = << >>
    /\ adPc = "idle"
    /\ adIdx = 0
    /\ adProbed = << >>
    /\ adResult = << >>
    /\ adStarted = << >>
    /\ adTimeouts = 0
    /\ offlineMode \in BOOLEAN
    /\ startup = << >>
    /\ contentGeneratorConfig \in {<<c>> : c \in StartupConfigs}
    /\ cliConfig = EmptyConfig
    /\ provider = << >>
    /\ prevVariant = << >>
    /\ calls = 0
    /\ request = << >>
    /\ built = << >>

\* What one fetch adds to the time autoDetectLocalServer spends waiting for
\* timeouts: one unit when the fetch belongs to a probe of the loop and ended
\* because its AbortSignal.timeout fired.
TimeoutsOf(caller, o) ==
    IF caller = "autoDetect" /\ o.timedOut THEN 1 ELSE 0

\* Entry of checkLocalServerAvailability(baseUrl, timeout)
EnterCheck(baseUrl, timeout, caller) ==
    /\ ckPc' = "tags"
    /\ ckBaseUrl' = baseUrl
    /\ ckTimeout' = timeout
    /\ ckCaller' = caller
    /\ ckRequests' = << >>
    /\ ckResult' = << >>

\* The awaited call has settled and autoDetectLocalServer is about to return:
\* the call's frame (its arguments, responses and result) is gone.
LeaveCheck ==
    /\ ckPc' = "idle"
    /\ ckBaseUrl' = ""
    /\ ckTimeout' = 0
    /\ ckCaller' = "user"
    /\ ckRequests' = << >>
    /\ ckResult' = << >>

\* A caller invokes checkLocalServerAvailability on a URL of its own.
CallCheck ==
    /\ adPc = "idle"
    /\ ckPc \in {"idle", "done"}
    /\ \E b \in CheckBaseUrls, t \in CheckTimeouts : EnterCheck(b, t, "user")
    /\ UNCHANGED <<adPc, adIdx, adProbed, adResult, adStarted, adTimeouts, offlineMode,
                   startup>>
    /\ UNCHANGED resolveVars

\* The fetch of the Ollama tags endpoint and the first try/catch.
FetchTags ==
    /\ ckPc = "tags"
    /\ \E o \in FetchOutcomes :
          LET c == CatchTags(TryTags(ckBaseUrl, o))
          IN  /\ ckRequests' = Append(ckRequests,
                     Fetched("tags", ReplaceTrailingV1(ckBaseUrl), ckTimeout, o))
              /\ IF c.type = "normal"
                 THEN ckPc' = "models" /\ ckResult' = ckResult
                 ELSE ckPc' = "done" /\ ckResult' = <<c>>
              /\ adTimeouts' = adTimeouts + TimeoutsOf(ckCaller, o)
    /\ UNCHANGED <<ckBaseUrl, ckTimeout, ckCaller>>
    /\ UNCHANGED <<adPc, adIdx, adProbed, adResult, adStarted, offlineMode, startup>>
    /\ UNCHANGED resolveVars

\* The fetch of the /models endpoint, the second try/catch and the final return.
FetchModels ==
    /\ ckPc = "models"
    /\ \E o \in FetchOutcomes :
          LET c == AfterModels(CatchModels(TryModels(ckBaseUrl, o)))
          IN  /\ ckRequests' = Append(ckRequests,
                     Fetched("models", ModelsUrl(ckBaseUrl), ckTimeout, o))
              /\ ckPc' = "done"
              /\ ckResult' = <<c>>
              /\ adTimeouts' = adTimeouts + TimeoutsOf(ckCaller, o)
    /\ UNCHANGED <<ckBaseUrl, ckTimeout, ckCaller>>
    /\ UNCHANGED <<adPc, adIdx, adProbed, adResult, adStarted, offlineMode, startup>>
    /\ UNCHANGED resolveVars

\* Entry of autoDetectLocalServer up to its first await.
CallAutoDetect ==
    /\ adPc = "idle"
    /\ ckPc \in {"idle", "done"}
    /\ adPc' = "loop"
    /\ adIdx' = 1
    /\ adProbed' = << >>
    /\ adResult' = << >>
    /\ adStarted' = <<commonEndpoints[1]>>
    /\ adTimeouts' = 0
    /\ EnterCheck(commonEndpoints[1], AutoDetectTimeout, "autoDetect")
    /\ UNCHANGED <<offlineMode, startup>>
    /\ UNCHANGED resolveVars

\* The loop body with the early return forgotten for all but the last
\* endpoint: an available result does not stop the loop.
AutoDetectResume_NoShortCircuit ==
    /\ adPc = "loop"
    /\ ckPc = "done"
    /\ ckCaller = "autoDetect"
    /\ LET c == ckResult[1]
       IN  /\ adProbed' = Append(adProbed, [endpoint |-> ckBaseUrl, result |-> c.value])
           /\ IF adIdx < Len(commonEndpoints)
              THEN /\ adIdx' = adIdx + 1
                   /\ adPc' = "loop"
                   /\ adResult' = adResult
                   /\ adStarted' = Append(adStarted, commonEndpoints[adIdx + 1])
                   /\ EnterCheck(commonEndpoints[adIdx + 1], AutoDetectTimeout, "autoDetect")
              ELSE /\ adResult' = IF c.value.isAvailable THEN <<Return(c.value)>>
                                  ELSE <<NoneDetected>>
                   /\ adPc' = "done"
                   /\ adIdx' = adIdx
                   /\ adStarted' = adStarted
                   /\ LeaveCheck
    /\ UNCHANGED <<adTimeouts, offlineMode, startup>>
    /\ UNCHANGED resolveVars

\* The loop body after `await checkLocalServerAvailability(endpoint, 2000)`
\* settles: return the result, go on to the next endpoint, or leave the loop.
AutoDetectResume ==
    /\ adPc = "loop"
    /\ ckPc = "done"
    /\ ckCaller = "autoDetect"
    /\ LET c == ckResult[1]
       IN  IF c.type = "throw"
           THEN /\ adResult' = <<c>>
                /\ adPc' = "done"
                /\ UNCHANGED <<adIdx, adProbed, adStarted>>
                /\ LeaveCheck
           ELSE /\ adProbed' = Append(adProbed, [endpoint |-> ckBaseUrl, result |-> c.value])
                /\ IF c.value.isAvailable
                   THEN /\ adResult' = <<Return(c.value)>>
                        /\ adPc' = "done"
                        /\ adIdx' = adIdx
                        /\ adStarted' = adStarted
                        /\ LeaveCheck
                   ELSE IF adIdx < Len(commonEndpoints)
                        THEN /\ adIdx' = adIdx + 1
                             /\ adPc' = "loop"
                             /\ adResult' = adResult
                             /\ adStarted' = Append(adStarted, commonEndpoints[adIdx + 1])
                             /\ EnterCheck(commonEndpoints[adIdx + 1], AutoDetectTimeout,
                                           "autoDetect")
                        ELSE /\ adResult' = <<NoneDetected>>
                             /\ adPc' = "done"
                             /\ adIdx' = adIdx
                             /\ adStarted' = adStarted
                             /\ LeaveCheck
    /\ UNCHANGED <<adTimeouts, offlineMode, startup>>
    /\ UNCHANGED resolveVars

\* A boundary that ignores the offline flag and always falls back.
Startup_IgnoresOffline ==
    /\ adPc = "done"
    /\ startup = << >>
    /\ LET c == adResult[1]
       IN  IF c.type = "return" /\ c.value.isAvailable
           THEN /\ provider' = <<determineProvider(
                       <<[contentGeneratorConfig[1] EXCEPT !.baseUrl = c.value.baseUrl]>>,
                       cliConfig)>>
                /\ startup' = <<Return("local")>>
           ELSE /\ provider' = <<determineProvider(contentGeneratorConfig, cliConfig)>>
                /\ startup' = <<Return("fallback")>>
    /\ UNCHANGED <<contentGeneratorConfig, cliConfig, prevVariant, calls, request, built>>
    /\ UNCHANGED <<ckPc, ckBaseUrl, ckTimeout, ckCaller, ckRequests, ckResult>>
    /\ UNCHANGED <<adPc, adIdx, adProbed, adResult, adStarted, adTimeouts, offlineMode>>

\* The consuming boundary, once auto-detection has settled: use the detected
\* local server; or, with offline mode on, fail with the setup instructions;
\* or fall back to the configured (possibly cloud) provider.
Startup ==
    /\ adPc = "done"
    /\ startup = << >>
    /\ LET c == adResult[1]
       IN  IF c.type = "return" /\ c.value.isAvailable
           THEN /\ provider' = <<determineProvider(
                       <<[contentGeneratorConfig[1] EXCEPT !.baseUrl = c.value.baseUrl]>>,
                       cliConfig)>>
                /\ startup' = <<Return("local")>>
           ELSE IF offlineMode
                THEN /\ \E serverType \in {"ollama", "vllm"} :
                           startup' = <<Throw(getLocalServerSetupInstructions(serverType))>>
                     /\ provider' = provider
                ELSE /\ provider' = <<determineProvider(contentGeneratorConfig, cliConfig)>>
                     /\ startup' = <<Return("fallback")>>
    /\ UNCHANGED <<contentGeneratorConfig, cliConfig, prevVariant, calls, request, built>>
    /\ UNCHANGED <<ckPc, ckBaseUrl, ckTimeout, ckCaller, ckRequests, ckResult>>
    /\ UNCHANGED <<adPc, adIdx, adProbed, adResult, adStarted, adTimeouts, offlineMode>>

NextProbe ==
    \/ CallCheck
    \/ FetchTags
    \/ FetchModels
    \/ CallAutoDetect
    \/ AutoDetectResume
    \/ Startup

SpecProbe == InitProbe /\ [][NextProbe]_vars

-----------------------------------------------------------------------------
(* Properties of probing.                                                  *)

CheckDone == ckPc = "done"

\* A fetch yielded a successful response: it resolved, the status was OK and
\* the body could be read.
Succeeded(r) ==
    r.outcome.kind = "response" /\ r.outcome.ok /\ r.outcome.body.valid

\* C6: checkLocalServerAvailability never throws, and when neither the tags
\* fetch nor the models fetch yielded a successful response it returns
\* isAvailable = false with a non-empty error string.
C6_ProbeFailureIsData ==
    CheckDone =>
        /\ ckResult[1].type = "return"
        /\ (\A i \in 1..Len(ckRequests) : ~Succeeded(ckRequests[i]))
           => /\ ckResult[1].value.isAvailable = FALSE
              /\ ckResult[1].value.error # << >>
              /\ Len(ckResult[1].value.error[1]) > 0

C6_Witness ==
    /\ CheckDone
    /\ Len(ckRequests) = 2
    /\ ckRequests[1].outcome.timedOut
    /\ ckRequests[2].outcome.kind = "response"
    /\ ckRequests[2].outcome.ok
    /\ ~ckRequests[2].outcome.body.valid
    /\ ckResult[1].type = "return"
    /\ ckResult[1].value.isAvailable = FALSE
    /\ ckResult[1].value.error = <<JsonSyntaxMessage>>

AutoDetectDone == adPc = "done"

\* C7: autoDetectLocalServer returns isAvailable = false exactly when the
\* four candidates localhost:11434, 127.0.0.1:11434, localhost:8000 and
\* 127.0.0.1:8000 were all probed unavailable, and then its error message
\* mentions port 11434 and port 8000.
C7_NegativeIffAllFourUnavailable ==
    AutoDetectDone =>
        /\ adResult[1].type = "return"
        /\ (adResult[1].value.isAvailable = FALSE)
           <=> (/\ Len(adProbed) = 4
                /\ Includes(adProbed[1].endpoint, "localhost:11434")
                /\ Includes(adProbed[2].endpoint, "127.0.0.1:11434")
                /\ Includes(adProbed[3].endpoint, "localhost:8000")
                /\ Includes(adProbed[4].endpoint, "127.0.0.1:8000")
                /\ \A i \in 1..4 : ~adProbed[i].result.isAvailable)
        /\ (adResult[1].value.isAvailable = FALSE)
           => /\ adResult[1].value.error # << >>
              /\ Includes(adResult[1].value.error[1], "11434")
              /\ Includes(adResult[1].value.error[1], "8000")

C7_Witness ==
    /\ AutoDetectDone
    /\ Len(adProbed) = 4
    /\ adResult[1].type = "return"
    /\ adResult[1].value.isAvailable = FALSE

C7_WitnessPositive ==
    /\ AutoDetectDone
    /\ Len(adProbed) = 3
    /\ adResult[1].value.isAvailable
    /\ adResult[1].value.serverType = <<"vllm">>

\* C8: with the offline flag on and a negative auto-detection result, the
\* boundary raises the offline-setup error, which names the server that is
\* not running and the steps to install and start it, and resolves no
\* provider at all, so no cloud provider is used as a fallback.
C8_OfflineNeverFallsBack ==
    (/\ offlineMode
     /\ AutoDetectDone
     /\ adResult[1].type = "return"
     /\ ~adResult[1].value.isAvailable)
        => /\ provider = << >>
           /\ startup # << >>
              => /\ startup[1].type = "throw"
                 /\ Includes(startup[1].value, "is not running")
                 /\ Includes(startup[1].value, "1. Install")
                 /\ Includes(startup[1].value, "Try your request again")

C8_Witness ==
    /\ offlineMode
    /\ AutoDetectDone
    /\ ~adResult[1].value.isAvailable
    /\ contentGeneratorConfig = <<CloudConfig>>
    /\ startup # << >>
    /\ startup[1].type = "throw"
    /\ provider = << >>

C8_WitnessFallback ==
    /\ ~offlineMode
    /\ AutoDetectDone
    /\ ~adResult[1].value.isAvailable
    /\ startup = <<Return("fallback")>>
    /\ provider # << >>
    /\ provider[1].variant = "DeepSeek"

\* `payload.field || []` as the claim reads it: the list the payload carries,
\* or the empty list when the payload has none.
PayloadList(opt) == IF opt = << >> THEN << >> ELSE opt[1]

\* C10: in one checkLocalServerAvailability call the tags endpoint (baseUrl
\* with its trailing /v1 replaced by /api/tags) is fetched first, the models
\* endpoint is fetched afterwards and only if the first fetch did not
\* succeed, no endpoint is fetched twice, and the first fetch that succeeds
\* fixes the result: isAvailable = true, serverType 'ollama' for the tags
\* endpoint, else 'vllm' if baseUrl contains ':8000' and 'custom' if not, with
\* the payload's models.
C10_TagsThenModelsFirstSuccessWins ==
    /\ Len(ckRequests) <= 2
    /\ ckPc = "tags" => ckRequests = << >>
    /\ ckPc = "models" => Len(ckRequests) = 1
    /\ Len(ckRequests) >= 1 =>
          /\ ckRequests[1].endpoint = "tags"
          /\ EndsWith(ckBaseUrl, "/v1") =>
                ckRequests[1].url = SubSeq(ckBaseUrl, 1, Len(ckBaseUrl) - 3) \o "/api/tags"
          /\ (~EndsWith(ckBaseUrl, "/v1") /\ ~EndsWith(ckBaseUrl, "/v1/")) =>
                ckRequests[1].url = ckBaseUrl
    /\ Len(ckRequests) = 2 =>
          /\ ckRequests[2].endpoint = "models"
          /\ ~Succeeded(ckRequests[1])
    /\ CheckDone =>
          LET first == ckRequests[1]
              res   == ckResult[1].value
          IN  IF Succeeded(first)
              THEN /\ Len(ckRequests) = 1
                   /\ res = Available("ollama", ckBaseUrl,
                                      PayloadList(first.outcome.body.models))
              ELSE /\ Len(ckRequests) = 2
                   /\ Succeeded(ckRequests[2]) =>
                         LET body == ckRequests[2].outcome.body
                         IN  /\ res.isAvailable
                             /\ res.serverType =
                                   <<IF Includes(ckBaseUrl, ":8000") THEN "vllm" ELSE "custom">>
                             /\ res.baseUrl = <<ckBaseUrl>>
                             /\ res.models =
                                   <<IF body.data # << >> THEN body.data[1]
                                     ELSE PayloadList(body.models)>>

C10_Witness ==
    /\ CheckDone
    /\ ckBaseUrl = "http://192.168.1.5:8080/v1"
    /\ Len(ckRequests) = 2
    /\ ckRequests[1].url = "http://192.168.1.5:8080/api/tags"
    /\ ckRequests[1].outcome.kind = "response"
    /\ ~ckRequests[1].outcome.ok
    /\ ckRequests[2].url = "http://192.168.1.5:8080/v1/models"
    /\ Succeeded(ckRequests[2])
    /\ ckResult[1].value.serverType = <<"custom">>
    /\ ckResult[1].value.models = <<<<"llama3">>>>

C10_WitnessTagsFirst ==
    /\ CheckDone
    /\ Len(ckRequests) = 1
    /\ Succeeded(ckRequests[1])
    /\ ckResult[1].value.serverType = <<"ollama">>
    /\ ckResult[1].value.models = <<<<"qwen3-coder:14b">>>>

-----------------------------------------------------------------------------
(* Properties of auto-detection's schedule and of the values returned.     *)

\* The candidates in the order the claim gives them.
Candidates ==
    <<"http://localhost:11434/v1", "http://127.0.0.1:11434/v1",
      "http://localhost:8000/v1", "http://127.0.0.1:8000/v1">>

AutoDetectRunning == adPc \in {"loop", "done"}

\* C11: autoDetectLocalServer probes localhost:11434, 127.0.0.1:11434,
\* localhost:8000, 127.0.0.1:8000 one after another: a probe is started only
\* when every earlier candidate's probe has completed negative, at most one
\* probe is in flight, the value returned is the result of the first
\* available candidate, and nothing after that candidate is probed.
C11_SequentialFirstAvailableWins ==
    AutoDetectRunning =>
        /\ Len(adStarted) <= Len(Candidates)
        /\ adStarted = SubSeq(Candidates, 1, Len(adStarted))
        /\ adPc = "loop" =>
              /\ Len(adStarted) = Len(adProbed) + 1
              /\ ckPc # "idle"
              /\ ckBaseUrl = adStarted[Len(adStarted)]
              /\ ckCaller = "autoDetect"
        /\ adPc = "done" => Len(adStarted) = Len(adProbed)
        /\ \A i \in 1..Len(adProbed) : adProbed[i].endpoint = adStarted[i]
        /\ \A i \in 1..(Len(adStarted) - 1) : ~adProbed[i].result.isAvailable
        /\ \A i \in 1..Len(adProbed) :
              adProbed[i].result.isAvailable
                 => /\ i = Len(adStarted)
                    /\ adPc = "done"
                    /\ adResult = <<Return(adProbed[i].result)>>
        /\ (adPc = "done" /\ adResult[1].value.isAvailable)
              => adResult[1].value = adProbed[Len(adProbed)].result

C11_Witness ==
    /\ adPc = "done"
    /\ adStarted = <<"http://localhost:11434/v1", "http://127.0.0.1:11434/v1">>
    /\ Len(adProbed) = 2
    /\ ~adProbed[1].result.isAvailable
    /\ adProbed[2].result.isAvailable
    /\ adResult = <<Return(adProbed[2].result)>>
    /\ adResult[1].value.baseUrl = <<"http://127.0.0.1:11434/v1">>

C11_WitnessInFlight ==
    /\ adPc = "loop"
    /\ ckPc = "models"
    /\ Len(adStarted) = 3
    /\ Len(adProbed) = 2

\* C12: the fetches of one autoDetectLocalServer call that run until their
\* timeout fires number at most 4, the number of candidate endpoints.
C12_TimeoutsAtMostCandidates ==
    adTimeouts <= Len(Candidates)

\* A ServerAvailability value is well-formed.
WellFormed(v) ==
    IF v.isAvailable
    THEN /\ v.serverType # << >>
         /\ v.serverType[1] \in {"ollama", "vllm", "custom"}
         /\ v.baseUrl # << >>
         /\ v.models # << >>
         /\ v.error = << >>
    ELSE /\ v.error # << >>
         /\ v.serverType = << >>
         /\ v.baseUrl = << >>
         /\ v.models = << >>

\* C13: every value returned by checkLocalServerAvailability or
\* autoDetectLocalServer is well-formed: a positive one has serverType,
\* baseUrl and models and no error, a negative one has an error and none of
\* the others; a positive result of checkLocalServerAvailability carries its
\* baseUrl argument and one of autoDetectLocalServer carries one of the four
\* candidate URLs.
C13_ResultsWellFormed ==
    /\ CheckDone =>
          /\ ckResult[1].type = "return"
          /\ WellFormed(ckResult[1].value)
          /\ ckResult[1].value.isAvailable => ckResult[1].value.baseUrl = <<ckBaseUrl>>
    /\ AutoDetectDone =>
          /\ adResult[1].type = "return"
          /\ WellFormed(adResult[1].value)
          /\ adResult[1].value.isAvailable =>
                \E i \in 1..Len(Candidates) : adResult[1].value.baseUrl = <<Candidates[i]>>

C13_Witness ==
    /\ CheckDone
    /\ ckCaller = "user"
    /\ ckBaseUrl = "http://localhost:8000/v1/"
    /\ Succeeded(ckRequests[1])
    /\ ckRequests[1].url = "http://localhost:8000/api/tags"
    /\ ckResult[1].value.isAvailable
    /\ ckResult[1].value.baseUrl = <<"http://localhost:8000/v1/">>

C13_WitnessAutoDetect ==
    /\ AutoDetectDone
    /\ adResult[1].value.isAvailable
    /\ adResult[1].value.serverType = <<"ollama">>
    /\ adResult[1].value.baseUrl = <<"http://127.0.0.1:8000/v1">>

C13_WitnessNegative ==
    /\ AutoDetectDone
    /\ ~adResult[1].value.isAvailable
    /\ adResult[1].value.baseUrl = << >>

====
